---- MODULE Spec2Model ----
(***************************************************************************)
(* ArborTag backend: the request handlers of main.py over the Record Store *)
(* (Supabase tables 'trees' and 'reports') and the Document Sink           *)
(* (Cloudinary), the Aggregator (services/analysis.py, TreeAnalyzer) and   *)
(* the Report Assembler (services/report_generator.py, ReportGenerator).   *)
(*                                                                         *)
(* Numbers.  carbon_seq, height, width and oxygen_prod are floats in the   *)
(* program; the model draws them from small positive integers, for which   *)
(* every float sum below is exact.  A mean is kept as the exact fraction   *)
(* [num, den]; two float quotients of small integers are equal exactly     *)
(* when the fractions are (IEEE division is correctly rounded), so means   *)
(* are compared by cross-multiplication.                                   *)
(*                                                                         *)
(* A tree row is a function from column names to values.  A column the row *)
(* does not carry is absent from its DOMAIN: pandas.DataFrame(rows) turns  *)
(* it into NaN when another row carries it, and has no such column when no *)
(* row does.                                                               *)
(***************************************************************************)
EXTENDS Integers, Sequences, FiniteSets, TLC

VARIABLES trees, reports, sink, last, doc

vars == <<trees, reports, sink, last, doc>>

----------------------------------------------------------------------------
(* Bounds of the model *)

MaxTrees == 2
MaxBatch == 2
MaxReports == 1
MaxShort == 3
MaxLong == 6
MaxRank == 7

----------------------------------------------------------------------------
(* Values *)

\* Common names in str order: pandas sorts group keys and modes with it.
NameOrder == <<"Ash", "Birch", "Cedar", "Elm", "Fir", "Oak", "Pine">>

Rank(name) == CHOOSE i \in DOMAIN NameOrder : NameOrder[i] = name

Ok(v) == [ok |-> TRUE, val |-> v]

\* A raised exception: its class and its str().
Raise(kind, msg) == [ok |-> FALSE, kind |-> kind, msg |-> msg]

KeyError(col) == Raise("KeyError", col)

----------------------------------------------------------------------------
(* services/analysis.py: TreeAnalyzer over self.df = pd.DataFrame(trees) *)

\* len(self.df)
DfLen(df) == Len(df)

\* 'col' in self.df : some row carries the column
HasColumn(df, col) == \E i \in DOMAIN df : col \in DOMAIN df[i]

\* the rows whose value in the column is not NaN
NotNa(df, col) == {i \in DOMAIN df : col \in DOMAIN df[i]}

RECURSIVE SumRows(_, _, _)
SumRows(df, col, S) ==
    IF S = {} THEN 0
    ELSE LET i == CHOOSE j \in S : TRUE
         IN  df[i][col] + SumRows(df, col, S \ {i})

\* self.df[col].sum() : NaN is skipped
ColSum(df, col) == SumRows(df, col, NotNa(df, col))

\* self.df[col].mean() : NaN is skipped, so the mean is over the rows
\* that carry the column
ColMean(df, col) ==
    [num |-> ColSum(df, col), den |-> Cardinality(NotNa(df, col))]

\* self.df[col].nunique() : NaN is not counted
NUnique(df, col) == Cardinality({df[i][col] : i \in NotNa(df, col)})

\* the group keys of groupby('common_name') : NaN keys are dropped
GroupKeys(df) == {df[i]["common_name"] : i \in NotNa(df, "common_name")}

GroupRows(df, name) ==
    {i \in NotNa(df, "common_name") : df[i]["common_name"] = name}

\* the count after a drop_duplicates(): equal rows counted once
CountOfDistinctRows(df, name) == Cardinality({df[i] : i \in GroupRows(df, name)})

CountOf(df, name) == Cardinality(GroupRows(df, name))

\* the set S of names as a sequence in str order
RECURSIVE SortedNames(_)
SortedNames(S) ==
    IF S = {} THEN <<>>
    ELSE LET m == CHOOSE n \in S : \A o \in S : Rank(n) <= Rank(o)
         IN  <<m>> \o SortedNames(S \ {m})

\* the most frequent name met first in the rows, as
\* Counter(names).most_common(1) would give
ModeFirstSeen(df) ==
    LET keys  == GroupKeys(df)
        modes == {n \in keys : \A o \in keys : CountOf(df, o) <= CountOf(df, n)}
        first(n) == CHOOSE i \in GroupRows(df, n) : \A j \in GroupRows(df, n) : i <= j
    IN  IF modes = {} THEN Raise("KeyError", "0")
        ELSE Ok(CHOOSE n \in modes : \A o \in modes : first(n) <= first(o))

\* self.df['common_name'].mode()[0] : mode() returns the most frequent
\* values sorted, [0] takes the first of them
ModeFirst(df) ==
    LET keys  == GroupKeys(df)
        modes == {n \in keys : \A o \in keys : CountOf(df, o) <= CountOf(df, n)}
    IN  IF modes = {} THEN Raise("KeyError", "0")
        ELSE Ok(SortedNames(modes)[1])

\* groupby('common_name')['carbon_seq'].mean() of one group
GroupMean(df, name) ==
    LET rows == {i \in GroupRows(df, name) : "carbon_seq" \in DOMAIN df[i]}
    IN  [num |-> SumRows(df, "carbon_seq", rows), den |-> Cardinality(rows)]

\* a < b for two means with values
MeanLess(a, b) == a.num * b.den < b.num * a.den

\* species_carbon.idxmax() : the first label, in the sorted key order of
\* groupby, whose mean is the maximum; NaN means are skipped
IdxMax(df) ==
    LET keys == {n \in GroupKeys(df) : GroupMean(df, n).den > 0}
        best == {n \in keys :
                   \A o \in keys : ~MeanLess(GroupMean(df, n), GroupMean(df, o))}
    IN  IF best = {} THEN "nan" ELSE SortedNames(best)[1]

\* the first column, in the order get_statistics reads them, that no row
\* carries
StatColumns ==
    <<"carbon_seq", "height", "width", "location", "species_id", "common_name">>

MissingColumns(df) ==
    {k \in DOMAIN StatColumns : ~HasColumn(df, StatColumns[k])}

FirstMissing(df) ==
    StatColumns[CHOOSE k \in MissingColumns(df) :
                    \A j \in MissingColumns(df) : k <= j]

\* TreeAnalyzer.get_statistics
get_statistics(df) ==
    IF MissingColumns(df) # {} THEN KeyError(FirstMissing(df))
    ELSE LET mode == IF DfLen(df) > 0 THEN ModeFirst(df) ELSE Ok("N/A")
         IN  IF ~mode.ok THEN mode
             ELSE Ok([total_trees |-> DfLen(df),
                      total_carbon |-> ColSum(df, "carbon_seq"),
                      total_oxygen |-> IF HasColumn(df, "oxygen_prod")
                                       THEN ColSum(df, "oxygen_prod") ELSE 0,
                      avg_height |-> ColMean(df, "height"),
                      avg_width |-> ColMean(df, "width"),
                      total_locations |-> NUnique(df, "location"),
                      total_species |-> NUnique(df, "species_id"),
                      most_common_species |-> mode.val,
                      most_carbon_efficient |->
                          IF GroupKeys(df) # {} THEN IdxMax(df) ELSE "N/A"])

\* the distinct common names of rows 1..n in order of first appearance
RECURSIVE FirstSeen(_, _)
FirstSeen(df, n) ==
    IF n = 0 THEN <<>>
    ELSE LET prev == FirstSeen(df, n - 1)
         IN  IF /\ "common_name" \in DOMAIN df[n]
                /\ \A k \in DOMAIN prev : prev[k] # df[n]["common_name"]
             THEN Append(prev, df[n]["common_name"])
             ELSE prev

\* x placed into the descending sequence after every item whose value
\* (x[1] in Python, the second component here) is not smaller
InsertDesc(sorted, x) ==
    LET k == Cardinality({i \in DOMAIN sorted : sorted[i][2] >= x[2]})
    IN  SubSeq(sorted, 1, k) \o <<x>> \o SubSeq(sorted, k + 1, Len(sorted))

\* sorted(items, key=lambda x: x[1], reverse=True) : descending by value
\* and stable, items of equal value keep their order
RECURSIVE SortedReverse(_)
SortedReverse(items) ==
    IF items = <<>> THEN <<>>
    ELSE InsertDesc(SortedReverse(SubSeq(items, 1, Len(items) - 1)),
                    items[Len(items)])

\* self.df['common_name'].value_counts() : NaN dropped, descending by
\* count, names of equal count in order of first appearance
ValueCounts(df) ==
    LET names == FirstSeen(df, Len(df))
    IN  SortedReverse([k \in DOMAIN names |-> <<names[k], CountOf(df, names[k])>>])

\* TreeAnalyzer.get_species_distribution : the dict as its item sequence
get_species_distribution(df) ==
    IF ~HasColumn(df, "common_name") THEN KeyError("common_name")
    ELSE Ok(ValueCounts(df))

\* TreeAnalyzer.get_carbon_by_species : groupby sorts the names; the sum
\* of a group skips NaN
get_carbon_by_species(df) ==
    IF ~HasColumn(df, "common_name") THEN KeyError("common_name")
    ELSE IF ~HasColumn(df, "carbon_seq")
         THEN Raise("KeyError", "Column not found: carbon_seq")
    ELSE LET names == SortedNames(GroupKeys(df))
         IN  Ok([k \in DOMAIN names |->
                   <<names[k], GroupMean(df, names[k]).num>>])

----------------------------------------------------------------------------
(* services/report_generator.py: ReportGenerator.generate_pdf_report *)

\* the [:5] of the two top tables
TopN == 5

\* items[:n]
Take(items, n) == SubSeq(items, 1, IF Len(items) < n THEN Len(items) ELSE n)

\* the tenths cut off instead of rounded
Format1Truncated(num, den) == (num * 10) \div den

\* f"{num/den:.1f}" in tenths: the nearest tenth, a tie to the even one
Format1(num, den) ==
    LET q == (num * 10) \div den
        r == (num * 10) % den
    IN  IF 2 * r > den \/ (2 * r = den /\ q % 2 = 1) THEN q + 1 ELSE q

\* round(total_trees * 0.2)
ExpansionTreesRounded(total_trees) ==
    IF (total_trees * 2) % 10 >= 5
    THEN (total_trees * 2) \div 10 + 1 ELSE (total_trees * 2) \div 10

\* int(total_trees * 0.2) : the product truncated toward zero.  The double
\* 0.2 lies above 1/5 by less than 2^-56, so the rounded product truncates
\* to the same integer as the exact total_trees / 5.
ExpansionTrees(total_trees) == (total_trees * 2) \div 10

\* the diversity qualifier of recommendation 1
Diversity(total_species) ==
    IF total_species > 10 THEN "excellent"
    ELSE IF total_species > 5 THEN "good" ELSE "needs improvement"

\* top_species and the rows appended to species_table_data
SpeciesTable(species_dist, total_trees) ==
    LET top_species == Take(SortedReverse(species_dist), TopN)
    IN  [k \in DOMAIN top_species |->
           [species |-> top_species[k][1],
            count |-> top_species[k][2],
            percentage |-> Format1(top_species[k][2] * 100, total_trees)]]

\* the first rows of carbon_data as they come, without the sort
CarbonTableUnsorted(carbon_data) ==
    LET top_carbon == Take(carbon_data, TopN)
    IN  [k \in DOMAIN top_carbon |->
           [species |-> top_carbon[k][1], carbon |-> top_carbon[k][2]]]

\* top_carbon and the rows appended to carbon_table_data
CarbonTable(carbon_data) ==
    LET top_carbon == Take(SortedReverse(carbon_data), TopN)
    IN  [k \in DOMAIN top_carbon |->
           [species |-> top_carbon[k][1], carbon |-> top_carbon[k][2]]]

\* the story of the document, by section; the first exception raised on
\* the way ends the call
generate_pdf_report(df, location) ==
    LET stats == get_statistics(df)
        species_dist == get_species_distribution(df)
        carbon_data == get_carbon_by_species(df)
    IN  IF ~stats.ok THEN stats
        ELSE IF ~species_dist.ok THEN species_dist
        ELSE IF ~carbon_data.ok THEN carbon_data
        ELSE Ok([title |-> IF location # "" THEN location ELSE "All Locations",
                 summary |-> stats.val,
                 species_narrative |-> Len(species_dist.val),
                 species_table |->
                     SpeciesTable(species_dist.val, stats.val.total_trees),
                 carbon_table |-> CarbonTable(carbon_data.val),
                 diversity |-> Diversity(stats.val.total_species),
                 carbon_champion |-> stats.val.most_carbon_efficient,
                 expansion_trees |-> ExpansionTrees(stats.val.total_trees)])

----------------------------------------------------------------------------
(* main.py: the request handlers.  A handler is one action; what the      *)
(* Record Store and the Document Sink answer (ok, or an exception) is an   *)
(* input of the action.  `calls` lists, in order, the collaborator         *)
(* operations and core components the request invoked.                     *)

\* No document: the Report Assembler did not run in the request.
NoDoc == [ok |-> FALSE, kind |-> "none", msg |-> ""]

NoBody == [status |-> "error"]

Response(op, location, status, detail, body, calls, fetched) ==
    [op |-> op, location |-> location, status |-> status, detail |-> detail,
     body |-> body, calls |-> calls, fetched |-> fetched, failed |-> ""]

\* the outcome of a request in which the collaborator operation `call`
\* raised
Unavailable(resp, call) == [resp EXCEPT !.failed = call]

\* raise HTTPException(status_code=..., detail=...) as the handler's outcome
HTTPException(op, location, status, detail, calls, fetched) ==
    Response(op, location, status, detail, NoBody, calls, fetched)

\* str(e) of an exception caught by `except Exception as e`
Str(e) == IF e.kind = "KeyError" THEN "'" \o e.msg \o "'" ELSE e.msg

\* str(HTTPException(status_code=404, detail="No data found"))
NoDataFound == "404: No data found"

\* a test that never finds the rows missing (`trees is None` for `not trees`)
not_trees_is_none(rows) == FALSE

\* `if not trees` : the fetch returned no rows
not_trees(rows) == rows = <<>>

\* supabase.table('trees').select("*")[.eq('location', location)].execute().data
Select(store, location) ==
    IF location # ""
    THEN SelectSeq(store, LAMBDA t : /\ "location" \in DOMAIN t
                                     /\ t["location"] = location)
    ELSE store

\* an upload that tries the insert a second time when the first raises
upload_data_retried(store, batch, insertOk) ==
    [resp |-> Response("upload_data", "", 200, "",
                  [status |-> "success", uploaded_count |-> Len(batch)],
                  IF insertOk THEN <<"trees.insert">>
                  ELSE <<"trees.insert", "trees.insert">>, -1),
     trees |-> store \o batch]

\* upload_data: [resp, trees]
upload_data(store, batch, insertOk) ==
    IF ~insertOk
    THEN [resp |-> Unavailable(HTTPException("upload_data", "", 500,
                       "Upload failed: StoreUnavailable", <<"trees.insert">>, -1),
                       "trees.insert"),
          trees |-> store]
    ELSE [resp |-> Response("upload_data", "", 200, "",
                       [status |-> "success", uploaded_count |-> Len(batch)],
                       <<"trees.insert">>, -1),
          trees |-> store \o batch]

\* analyze_data: the response
analyze_data(store, location, fetchOk) ==
    LET op == "analyze_data"
        rows == Select(store, location)
        stats == get_statistics(rows)
        species_dist == get_species_distribution(rows)
        carbon_by_species == get_carbon_by_species(rows)
        c1 == <<"trees.select">>
        c2 == Append(c1, "TreeAnalyzer")
    IN  IF ~fetchOk
        THEN Unavailable(HTTPException(op, location, 500, "StoreUnavailable", c1, -1),
                         "trees.select")
        ELSE IF not_trees(rows)
        \* the 404 raised inside the try block is caught by its own
        \* `except Exception` and raised again as a 500
        THEN HTTPException(op, location, 500, NoDataFound, c1, 0)
        ELSE IF ~stats.ok
        THEN HTTPException(op, location, 500, Str(stats), c2, Len(rows))
        ELSE IF ~species_dist.ok
        THEN HTTPException(op, location, 500, Str(species_dist), c2, Len(rows))
        ELSE IF ~carbon_by_species.ok
        THEN HTTPException(op, location, 500, Str(carbon_by_species), c2, Len(rows))
        ELSE Response(op, location, 200, "",
                 [status |-> "success", statistics |-> stats.val,
                  species_distribution |-> species_dist.val,
                  carbon_by_species |-> carbon_by_species.val],
                 c2, Len(rows))

\* a generate_report whose metadata row counts the rows of the table,
\* not the rows fetched for the location
generate_report_counts_table(store, rep, snk, location, fetchOk, uploadOk, insertOk) ==
    LET op == "generate_report"
        rows == Select(store, location)
        pdf_buffer == generate_pdf_report(rows, location)
        secure_url == snk + 1
        report_data == [location |-> location, report_url |-> secure_url,
                        tree_count |-> Len(store)]
        c1 == <<"trees.select">>
        c2 == Append(c1, "generate_pdf_report")
        c3 == Append(c2, "cloudinary.upload")
        c4 == Append(c3, "reports.insert")
    IN  IF ~fetchOk
        THEN [resp |-> Unavailable(HTTPException(op, location, 500,
                                       "StoreUnavailable", c1, -1), "trees.select"),
              doc |-> NoDoc, sink |-> snk, reports |-> rep]
        ELSE IF not_trees(rows)
        THEN [resp |-> HTTPException(op, location, 500, NoDataFound, c1, 0),
              doc |-> NoDoc, sink |-> snk, reports |-> rep]
        ELSE IF ~pdf_buffer.ok
        THEN [resp |-> HTTPException(op, location, 500, Str(pdf_buffer), c2, Len(rows)),
              doc |-> pdf_buffer, sink |-> snk, reports |-> rep]
        ELSE IF ~uploadOk
        THEN [resp |-> Unavailable(HTTPException(op, location, 500,
                                       "SinkUnavailable", c3, Len(rows)),
                                   "cloudinary.upload"),
              doc |-> pdf_buffer, sink |-> snk, reports |-> rep]
        ELSE IF ~insertOk
        THEN [resp |-> Unavailable(HTTPException(op, location, 500,
                                       "StoreUnavailable", c4, Len(rows)),
                                   "reports.insert"),
              doc |-> pdf_buffer, sink |-> snk + 1, reports |-> rep]
        ELSE [resp |-> Response(op, location, 200, "",
                           [status |-> "success", report_url |-> secure_url,
                            message |-> "Report generated successfully"],
                           c4, Len(rows)),
              doc |-> pdf_buffer, sink |-> snk + 1,
              reports |-> Append(rep, report_data)]

\* generate_report: [resp, doc, sink, reports]
generate_report(store, rep, snk, location, fetchOk, uploadOk, insertOk) ==
    LET op == "generate_report"
        rows == Select(store, location)
        pdf_buffer == generate_pdf_report(rows, location)
        secure_url == snk + 1
        report_data == [location |-> location, report_url |-> secure_url,
                        tree_count |-> Len(rows)]
        c1 == <<"trees.select">>
        c2 == Append(c1, "generate_pdf_report")
        c3 == Append(c2, "cloudinary.upload")
        c4 == Append(c3, "reports.insert")
    IN  IF ~fetchOk
        THEN [resp |-> Unavailable(HTTPException(op, location, 500,
                                       "StoreUnavailable", c1, -1), "trees.select"),
              doc |-> NoDoc, sink |-> snk, reports |-> rep]
        ELSE IF not_trees(rows)
        THEN [resp |-> HTTPException(op, location, 500, NoDataFound, c1, 0),
              doc |-> NoDoc, sink |-> snk, reports |-> rep]
        ELSE IF ~pdf_buffer.ok
        THEN [resp |-> HTTPException(op, location, 500, Str(pdf_buffer), c2, Len(rows)),
              doc |-> pdf_buffer, sink |-> snk, reports |-> rep]
        ELSE IF ~uploadOk
        THEN [resp |-> Unavailable(HTTPException(op, location, 500,
                                       "SinkUnavailable", c3, Len(rows)),
                                   "cloudinary.upload"),
              doc |-> pdf_buffer, sink |-> snk, reports |-> rep]
        ELSE IF ~insertOk
        THEN [resp |-> Unavailable(HTTPException(op, location, 500,
                                       "StoreUnavailable", c4, Len(rows)),
                                   "reports.insert"),
              doc |-> pdf_buffer, sink |-> snk + 1, reports |-> rep]
        ELSE [resp |-> Response(op, location, 200, "",
                           [status |-> "success", report_url |-> secure_url,
                            message |-> "Report generated successfully"],
                           c4, Len(rows)),
              doc |-> pdf_buffer, sink |-> snk + 1,
              reports |-> Append(rep, report_data)]

\* the dict main.get_statistics returns for an empty table
ZeroStatistics ==
    [total_trees |-> 0, total_carbon |-> 0, total_oxygen |-> 0,
     avg_height |-> [num |-> 0, den |-> 1], avg_width |-> [num |-> 0, den |-> 1],
     total_locations |-> 0, total_species |-> 0]

\* main.get_statistics (GET /api/statistics): the response
api_statistics(store, fetchOk) ==
    LET op == "get_statistics"
        rows == Select(store, "")
        stats == get_statistics(rows)
        c1 == <<"trees.select">>
        c2 == Append(c1, "TreeAnalyzer")
    IN  IF ~fetchOk
        THEN Unavailable(HTTPException(op, "", 500, "StoreUnavailable", c1, -1),
                         "trees.select")
        ELSE IF not_trees(rows)
        THEN Response(op, "", 200, "", ZeroStatistics, c1, 0)
        ELSE IF ~stats.ok
        THEN HTTPException(op, "", 500, Str(stats), c2, Len(rows))
        ELSE Response(op, "", 200, "", stats.val, c2, Len(rows))

\* health_check: the response.  The fetch is inside a bare `except:`, so
\* its failure becomes the "database" field of the 200 response.  The
\* timestamp field, the wall clock, is left out.
health_check(fetchOk) ==
    LET resp(db_status) ==
            Response("health_check", "", 200, "",
                     [status |-> "healthy", database |-> db_status,
                      hosting |-> "free"],
                     <<"trees.select">>, -1)
    IN  IF ~fetchOk THEN Unavailable(resp("error"), "trees.select")
        ELSE resp("healthy")

\* get_locations: the response; list(set(...)) has no order
get_locations(store, fetchOk) ==
    LET op == "get_locations"
        rows == Select(store, "")
        c1 == <<"trees.select">>
    IN  IF ~fetchOk
        THEN Unavailable(HTTPException(op, "", 500, "StoreUnavailable", c1, -1),
                         "trees.select")
        ELSE Response(op, "", 200, "",
                      [locations |-> {rows[i]["location"] : i \in DOMAIN rows}],
                      c1, Len(rows))

----------------------------------------------------------------------------
(* The service: requests arrive in any order. *)

\* models/schemas.py TreeData: the rows a validated upload can carry
Tree(species_id, common_name, carbon_seq, height, width, location) ==
    [species_id |-> species_id, common_name |-> common_name,
     carbon_seq |-> carbon_seq, height |-> height, width |-> width,
     location |-> location]

TreeData ==
    {Tree(1, "Oak", 10, 4, 1, "A"), Tree(1, "Oak", 20, 6, 2, "B"),
     Tree(2, "Pine", 5, 3, 1, "A"), Tree(3, "Ash", 15, 5, 1, "B")}

\* the location of a request; "" asks for every location
Locations == {"", "A", "B"}

Batches == UNION {[1..n -> TreeData] : n \in 1..MaxBatch}

UploadData ==
    \E batch \in Batches, insertOk \in BOOLEAN :
        /\ Len(trees) + Len(batch) <= MaxTrees
        /\ LET out == upload_data(trees, batch, insertOk)
           IN  /\ trees' = out.trees
               /\ last' = out.resp
        /\ doc' = NoDoc
        /\ UNCHANGED <<reports, sink>>

AnalyzeData ==
    \E location \in Locations, fetchOk \in BOOLEAN :
        /\ last' = analyze_data(trees, location, fetchOk)
        /\ doc' = NoDoc
        /\ UNCHANGED <<trees, reports, sink>>

GenerateReport ==
    \E location \in Locations, fetchOk, uploadOk, insertOk \in BOOLEAN :
        /\ sink < MaxReports
        /\ LET out == generate_report(trees, reports, sink, location,
                                      fetchOk, uploadOk, insertOk)
           IN  /\ last' = out.resp
               /\ doc' = out.doc
               /\ sink' = out.sink
               /\ reports' = out.reports
        /\ UNCHANGED trees

GetStatistics ==
    \E fetchOk \in BOOLEAN :
        /\ last' = api_statistics(trees, fetchOk)
        /\ doc' = NoDoc
        /\ UNCHANGED <<trees, reports, sink>>

HealthCheck ==
    \E fetchOk \in BOOLEAN :
        /\ last' = health_check(fetchOk)
        /\ doc' = NoDoc
        /\ UNCHANGED <<trees, reports, sink>>

GetLocations ==
    \E fetchOk \in BOOLEAN :
        /\ last' = get_locations(trees, fetchOk)
        /\ doc' = NoDoc
        /\ UNCHANGED <<trees, reports, sink>>

----------------------------------------------------------------------------
Init ==
    /\ trees = <<>>
    /\ reports = <<>>
    /\ sink = 0
    /\ last = Response("none", "", 0, "", NoBody, <<>>, -1)
    /\ doc = NoDoc

Next ==
    \/ UploadData
    \/ AnalyzeData
    \/ GenerateReport
    \/ GetStatistics
    \/ HealthCheck
    \/ GetLocations

Spec == Init /\ [][Next]_vars

----------------------------------------------------------------------------
(* The Aggregator and the Report Assembler as functions: a collection of   *)
(* rows is given, and each operation is applied to it.  The rows here are  *)
(* any dicts, as TreeAnalyzer(trees: List[Dict]) takes them: a row may     *)
(* lack a column.                                                          *)

\* a row without one of its columns
Without(row, col) == [c \in DOMAIN row \ {col} |-> row[c]]

WithOxygen(row, oxygen_prod) ==
    [c \in DOMAIN row \cup {"oxygen_prod"} |->
        IF c = "oxygen_prod" THEN oxygen_prod ELSE row[c]]

\* short collections over rows that tie, share names across species ids,
\* or lack a column
ShortRows ==
    {Tree(1, "Oak", 10, 4, 1, "A"), Tree(1, "Oak", 20, 6, 2, "B"),
     Tree(2, "Pine", 15, 3, 1, "A"), Tree(4, "Oak", 10, 4, 1, "A"),
     Tree(3, "Ash", 15, 5, 1, "B"),
     WithOxygen(Tree(2, "Pine", 5, 3, 1, "B"), 7),
     Without(Tree(2, "Pine", 5, 9, 1, "A"), "height"),
     Without(Tree(1, "Oak", 30, 4, 1, "A"), "common_name"),
     Without(Tree(3, "Ash", 15, 5, 1, "B"), "carbon_seq")}

\* longer collections over three species
LongRows ==
    {Tree(1, "Oak", 10, 4, 1, "A"), Tree(2, "Pine", 5, 3, 1, "A"),
     Tree(3, "Ash", 15, 5, 1, "B")}

\* a census of eight trees of six species, in the order it was taken
Census ==
    <<Tree(1, "Ash", 3, 5, 1, "A"), Tree(2, "Birch", 2, 5, 1, "A"),
      Tree(3, "Cedar", 4, 5, 1, "A"), Tree(6, "Oak", 5, 5, 1, "B"),
      Tree(1, "Ash", 1, 5, 1, "A"), Tree(4, "Elm", 6, 5, 1, "B"),
      Tree(5, "Fir", 1, 5, 1, "B"), Tree(6, "Oak", 2, 5, 1, "B")>>

SeqsUpTo(S, n) == UNION {[1..k -> S] : k \in 0..n}

\* the rows of s at the positions I, in the order of s
RECURSIVE Pick(_, _)
Pick(s, I) ==
    IF s = <<>> THEN <<>>
    ELSE LET rest == Pick(SubSeq(s, 1, Len(s) - 1), I)
         IN  IF Len(s) \in I THEN Append(rest, s[Len(s)]) ELSE rest

Reversed(s) == [i \in DOMAIN s |-> s[Len(s) + 1 - i]]

\* the parts of the census of at most n trees, in either order
CensusParts(n) ==
    LET parts == {Pick(Census, I) :
                    I \in {J \in SUBSET DOMAIN Census : Cardinality(J) <= n}}
    IN  parts \cup {Reversed(q) : q \in parts}

Collections ==
    SeqsUpTo(ShortRows, MaxShort) \cup SeqsUpTo(LongRows, MaxLong)
        \cup CensusParts(MaxRank)

\* the result of a call of the core, as the last outcome
Returned(op, location, result, n) ==
    Response(op, location, 0, "", result, <<op>>, n)

InitCore ==
    /\ trees \in Collections
    /\ reports = <<>>
    /\ sink = 0
    /\ last = Response("none", "", 0, "", NoBody, <<>>, -1)
    /\ doc = NoDoc

Summarize ==
    /\ last' = Returned("TreeAnalyzer.get_statistics", "",
                        get_statistics(trees), Len(trees))
    /\ doc' = NoDoc
    /\ UNCHANGED <<trees, reports, sink>>

SpeciesDistribution ==
    /\ last' = Returned("TreeAnalyzer.get_species_distribution", "",
                        get_species_distribution(trees), Len(trees))
    /\ doc' = NoDoc
    /\ UNCHANGED <<trees, reports, sink>>

CarbonBySpecies ==
    /\ last' = Returned("TreeAnalyzer.get_carbon_by_species", "",
                        get_carbon_by_species(trees), Len(trees))
    /\ doc' = NoDoc
    /\ UNCHANGED <<trees, reports, sink>>

AssembleReport ==
    \E location \in {"", "A"} :
        /\ doc' = generate_pdf_report(trees, location)
        /\ last' = Returned("ReportGenerator.generate_pdf_report", location,
                            NoBody, Len(trees))
        /\ UNCHANGED <<trees, reports, sink>>

NextCore ==
    \/ Summarize
    \/ SpeciesDistribution
    \/ CarbonBySpecies
    \/ AssembleReport

SpecCore == InitCore /\ [][NextCore]_vars

----------------------------------------------------------------------------
(* The claims.  What a claim says of a collection is stated here from the  *)
(* rows themselves, not through the operators of the Aggregator.           *)

Required == {"height", "width", "carbon_seq", "species_id", "common_name", "location"}

\* every row carries every required column
WellFormed(df) == \A i \in DOMAIN df : Required \subseteq DOMAIN df[i]

NamesIn(df) == {df[i]["common_name"] : i \in DOMAIN df}

Occurrences(df, name) ==
    Cardinality({i \in DOMAIN df : df[i]["common_name"] = name})

RECURSIVE CarbonOf(_, _, _)
CarbonOf(df, name, n) ==
    IF n = 0 THEN 0
    ELSE CarbonOf(df, name, n - 1)
           + (IF df[n]["common_name"] = name THEN df[n]["carbon_seq"] ELSE 0)

TotalCarbonOf(df, name) == CarbonOf(df, name, Len(df))

MostFrequent(df) ==
    {n \in NamesIn(df) : \A o \in NamesIn(df) : Occurrences(df, o) <= Occurrences(df, n)}

\* mean carbon of name n is at least that of name o
MeanAtLeast(df, n, o) ==
    TotalCarbonOf(df, n) * Occurrences(df, o) >= TotalCarbonOf(df, o) * Occurrences(df, n)

HighestMean(df) ==
    {n \in NamesIn(df) : \A o \in NamesIn(df) : MeanAtLeast(df, n, o)}

FirstRowOf(df, name) ==
    CHOOSE i \in DOMAIN df :
        /\ df[i]["common_name"] = name
        /\ \A j \in 1..(i - 1) : df[j]["common_name"] # name

\* the name of S met first in the rows
FirstEncountered(df, S) ==
    CHOOSE n \in S : \A o \in S : FirstRowOf(df, n) <= FirstRowOf(df, o)

\* the name of S first in str order
FirstSorted(S) == CHOOSE n \in S : \A o \in S : Rank(n) <= Rank(o)

FetchedNothing(op) == last.op = op /\ last.fetched = 0

Invoked(call) == \E i \in DOMAIN last.calls : last.calls[i] = call

InvokedNext(call) == \E i \in DOMAIN last'.calls : last'.calls[i] = call

\* C1: a report request whose fetch returns zero records ends in a failure
\* outcome and produces no document: the Report Assembler does not run, the
\* Document Sink store is not invoked, and no row is appended to reports.
C1_NoReportWithoutData ==
    [][(last'.op = "generate_report" /\ last'.fetched = 0) =>
          /\ last'.status >= 400
          /\ doc' = NoDoc
          /\ ~InvokedNext("generate_pdf_report")
          /\ ~InvokedNext("cloudinary.upload")
          /\ ~InvokedNext("reports.insert")
          /\ sink' = sink
          /\ reports' = reports]_vars

\* C1 witness: a report asked for a location without rows while the table
\* holds rows of another location.
C1_Witness == FetchedNothing("generate_report") /\ trees # <<>>

\* C2: when the fetch of an analysis or report request yields zero records,
\* the caller receives the 404 not-found outcome, not the generic 500.
C2_NotFoundOutcome ==
    (FetchedNothing("analyze_data") \/ FetchedNothing("generate_report"))
        => last.status = 404

\* C3: when the fetch of the statistics query yields zero records the
\* request succeeds without invoking the Aggregator and returns the view
\* whose count, sums, means and distinct counts are all 0.
C3_ZeroStatistics ==
    FetchedNothing("get_statistics") =>
        /\ last.status = 200
        /\ ~Invoked("TreeAnalyzer")
        /\ last.body.total_trees = 0
        /\ last.body.total_carbon = 0
        /\ last.body.total_oxygen = 0
        /\ last.body.avg_height.num = 0
        /\ last.body.avg_width.num = 0
        /\ last.body.total_locations = 0
        /\ last.body.total_species = 0

\* C3 witness: the statistics query answered from an empty table.
C3_Witness == FetchedNothing("get_statistics") /\ last.status = 200

StatsReturned == last.op = "TreeAnalyzer.get_statistics"

DistributionReturned == last.op = "TreeAnalyzer.get_species_distribution"

\* C4 as claimed: for a non-empty collection, most_common_species has the
\* maximal occurrence count and most_carbon_efficient the maximal mean
\* carbon_seq, and among tied names the one met first in the input wins.
C4_FirstEncounteredWins ==
    (StatsReturned /\ trees # <<>> /\ WellFormed(trees)) =>
        /\ last.body.ok
        /\ last.body.val.most_common_species
              = FirstEncountered(trees, MostFrequent(trees))
        /\ last.body.val.most_carbon_efficient
              = FirstEncountered(trees, HighestMean(trees))

\* C4 amended: for a non-empty collection, most_common_species has the
\* maximal occurrence count and most_carbon_efficient the maximal mean
\* carbon_seq, and among tied names the first in sorted name order wins,
\* whatever the order of the input.
C4_FirstSortedWins ==
    (StatsReturned /\ trees # <<>> /\ WellFormed(trees)) =>
        /\ last.body.ok
        /\ last.body.val.most_common_species = FirstSorted(MostFrequent(trees))
        /\ last.body.val.most_carbon_efficient = FirstSorted(HighestMean(trees))

\* C4 witness: names tie for both maxima and the winners are not the names
\* met first.
C4_Witness ==
    /\ StatsReturned /\ trees # <<>> /\ WellFormed(trees) /\ last.body.ok
    /\ Cardinality(MostFrequent(trees)) > 1
    /\ Cardinality(HighestMean(trees)) > 1
    /\ last.body.val.most_common_species
          # FirstEncountered(trees, MostFrequent(trees))
    /\ last.body.val.most_carbon_efficient
          # FirstEncountered(trees, HighestMean(trees))

\* the required columns some row of the collection lacks
LackedColumns(df) == {c \in Required : \E i \in DOMAIN df : c \notin DOMAIN df[i]}

\* C5: if a row given to the Aggregator lacks a required column,
\* get_statistics fails with an error naming a column that is lacking; it
\* returns no view computed over the rows that have the value.
C5_MalformedRecordFails ==
    (StatsReturned /\ LackedColumns(trees) # {}) =>
        /\ ~last.body.ok
        /\ last.body.msg \in LackedColumns(trees)

ReportReturned == last.op = "ReportGenerator.generate_pdf_report" /\ doc.ok

\* n / 5 rounded to the nearest integer (n / 5 is never at a half)
RoundFifth(n) == IF n % 5 >= 3 THEN n \div 5 + 1 ELSE n \div 5

\* C6 as claimed: the additional trees of the Expansion recommendation are
\* round(total_trees * 0.2), to the nearest integer.
C6_ExpansionRounded ==
    ReportReturned =>
        doc.val.expansion_trees = RoundFifth(doc.val.summary.total_trees)

\* C6 amended: the additional trees of the Expansion recommendation are
\* total_trees * 0.2 truncated toward zero, the largest integer e with
\* 5 * e <= total_trees.
C6_ExpansionTruncated ==
    ReportReturned =>
        LET e == doc.val.expansion_trees
            n == doc.val.summary.total_trees
        IN  n >= 1 /\ n = Len(trees) /\ 5 * e <= n /\ n < 5 * (e + 1)

\* C6 witness: a report over four trees, where truncation gives 0 and
\* rounding would give 1.
C6_Witness ==
    /\ ReportReturned
    /\ doc.val.summary.total_trees = 4
    /\ doc.val.expansion_trees = 0

Min(a, b) == IF a < b THEN a ELSE b

TableNames(table) == {table[k].species : k \in DOMAIN table}

\* a top table over the ranking key: min(5, names) rows of distinct names,
\* each with its own key, in non-increasing order of the key, and no name
\* left out with a key strictly greater than a key in the table
IsTopTable(table, names, Key(_), KeyShown(_)) ==
    /\ Len(table) = Min(5, Cardinality(names))
    /\ TableNames(table) \subseteq names
    /\ \A j, k \in DOMAIN table : j # k => table[j].species # table[k].species
    /\ \A k \in DOMAIN table : KeyShown(table[k]) = Key(table[k].species)
    /\ \A j, k \in DOMAIN table : j < k => KeyShown(table[j]) >= KeyShown(table[k])
    /\ \A n \in names \ TableNames(table) :
          \A k \in DOMAIN table : Key(n) <= KeyShown(table[k])

\* C7: in every generated report the top-species table (by occurrence
\* count) and the top-carbon table (by summed carbon) each hold
\* min(5, distinct common names) rows in non-increasing order of the key,
\* and no name left out has a key strictly greater than an included one.
C7_TopTables ==
    (ReportReturned /\ WellFormed(trees)) =>
        /\ IsTopTable(doc.val.species_table, NamesIn(trees),
                      LAMBDA n : Occurrences(trees, n), LAMBDA row : row.count)
        /\ IsTopTable(doc.val.carbon_table, NamesIn(trees),
                      LAMBDA n : TotalCarbonOf(trees, n), LAMBDA row : row.carbon)

\* C7 witness: a report over six names, so that each table leaves one
\* out; the species table is not constant, and the name the carbon table
\* leaves out has a key strictly smaller than its last row.
C7_Witness ==
    /\ ReportReturned /\ WellFormed(trees)
    /\ Cardinality(NamesIn(trees)) = 6
    /\ doc.val.species_table[1].count > doc.val.species_table[5].count
    /\ \E n \in NamesIn(trees) \ TableNames(doc.val.carbon_table) :
          TotalCarbonOf(trees, n) < doc.val.carbon_table[5].carbon
    /\ doc.val.carbon_table[1].carbon > doc.val.carbon_table[5].carbon

SpeciesIds(df) == {df[i]["species_id"] : i \in DOMAIN df}

\* C8: for a non-empty collection, the number of species stated in the
\* Species Analysis sentence is the view's distinct-species count (distinct
\* species_id), the 'Number of Species' of the executive summary, which
\* also decides the diversity qualifier.
C8_SpeciesNarrative ==
    (ReportReturned /\ WellFormed(trees)) =>
        /\ doc.val.summary.total_species = Cardinality(SpeciesIds(trees))
        /\ doc.val.diversity = Diversity(doc.val.summary.total_species)
        /\ doc.val.species_narrative = doc.val.summary.total_species

Abs(x) == IF x < 0 THEN -x ELSE x

\* p tenths of a percent is 100 * count / total to 1 decimal: within half
\* a tenth of it
IsPercentage(p, count, total) == 2 * Abs(p * total - 1000 * count) <= total

\* 100 * count / total to 1 decimal, in tenths
Percentage(count, total) ==
    CHOOSE p \in 0..1000 :
        /\ IsPercentage(p, count, total)
        /\ \A q \in 0..1000 : IsPercentage(q, count, total) /\ q # p => p % 2 = 0

\* the sum of the values of the function f over the set S
RECURSIVE SumOver(_, _)
SumOver(S, f) ==
    IF S = {} THEN 0
    ELSE LET x == CHOOSE y \in S : TRUE IN f[x] + SumOver(S \ {x}, f)

\* the displayed percentages summed over the species of the distribution
PercentageSum(df) ==
    SumOver(NamesIn(df),
            [n \in NamesIn(df) |-> Percentage(Occurrences(df, n), Len(df))])

TablePercentageSum(table) ==
    SumOver(DOMAIN table, [k \in DOMAIN table |-> table[k].percentage])

RowsArePercentages(df, table) ==
    \A k \in DOMAIN table :
        /\ table[k].count = Occurrences(df, table[k].species)
        /\ IsPercentage(table[k].percentage, table[k].count, Len(df))

\* C9 as claimed: each displayed percentage is 100 * count / total_trees to
\* 1 decimal, and the displayed percentages of the full distribution, and
\* so of the table, never sum to more than 100.
C9_PercentagesAtMost100 ==
    (ReportReturned /\ WellFormed(trees)) =>
        /\ RowsArePercentages(trees, doc.val.species_table)
        /\ PercentageSum(trees) <= 1000
        /\ TablePercentageSum(doc.val.species_table) <= 1000

\* C9 amended: each displayed percentage is 100 * count / total_trees to
\* 1 decimal; summed over the full distribution the displayed percentages
\* lie within 0.05 per species of 100, and summed over the rows of the
\* table they are at most 100 plus 0.05 per row: the sum can exceed 100.
C9_PercentagesNear100 ==
    (ReportReturned /\ WellFormed(trees)) =>
        /\ RowsArePercentages(trees, doc.val.species_table)
        /\ 2 * Abs(PercentageSum(trees) - 1000) <= Cardinality(NamesIn(trees))
        /\ 2 * (TablePercentageSum(doc.val.species_table) - 1000)
              <= Len(doc.val.species_table)

\* C9 witness: a report whose displayed percentages sum to more than 100.
C9_Witness ==
    /\ ReportReturned /\ WellFormed(trees)
    /\ TablePercentageSum(doc.val.species_table) > 1000

CountSum(items) == SumOver(DOMAIN items, [k \in DOMAIN items |-> items[k][2]])

\* C10 as claimed: for every collection the counts of the species
\* distribution sum to the number of records, and for a non-empty one that
\* number is the total_trees of get_statistics.
C10_CountsSumToLen ==
    /\ (DistributionReturned /\ WellFormed(trees)) =>
          last.body.ok /\ CountSum(last.body.val) = Len(trees)
    /\ (StatsReturned /\ WellFormed(trees) /\ trees # <<>>) =>
          last.body.ok /\ last.body.val.total_trees = Len(trees)

\* C10 amended: for every non-empty collection the counts of the species
\* distribution sum to the number of records, which is also the
\* total_trees of get_statistics.
C10_CountsSumToLenNonEmpty ==
    /\ (DistributionReturned /\ WellFormed(trees) /\ trees # <<>>) =>
          last.body.ok /\ CountSum(last.body.val) = Len(trees)
    /\ (StatsReturned /\ WellFormed(trees) /\ trees # <<>>) =>
          last.body.ok /\ last.body.val.total_trees = Len(trees)

\* C10 witness: the distribution of six records of several names.
C10_Witness ==
    /\ DistributionReturned /\ WellFormed(trees) /\ last.body.ok
    /\ Len(trees) = 6
    /\ Len(last.body.val) = 3
    /\ CountSum(last.body.val) = 6

\* the operations of the Record Store and of the Document Sink
CollaboratorCalls ==
    {"trees.select", "trees.insert", "reports.insert", "cloudinary.upload"}

TimesInvoked(call) ==
    Cardinality({i \in DOMAIN last.calls : last.calls[i] = call})

\* the request invoked nothing after the collaborator operation that raised
FailedCallIsLast ==
    /\ last.calls # <<>>
    /\ last.calls[Len(last.calls)] = last.failed

\* C11 as claimed: no handler retries a collaborator: within one request
\* each Record Store operation and the Document Sink store is invoked at
\* most once, and when one of them fails the request ends in a failure
\* outcome with no later collaborator call.
C11_NoRetryFailureSurfaced ==
    /\ \A call \in CollaboratorCalls : TimesInvoked(call) <= 1
    /\ last.failed # "" => last.status >= 400 /\ FailedCallIsLast

\* C11 amended: within one request each Record Store operation and the
\* Document Sink store is invoked at most once, and no collaborator is
\* called after one has failed; the request then ends in a failure outcome
\* in every handler but health_check, which answers 200 with the database
\* field "error".
C11_NoRetryFailureSurfacedButHealth ==
    /\ \A call \in CollaboratorCalls : TimesInvoked(call) <= 1
    /\ last.failed # "" =>
          /\ FailedCallIsLast
          /\ last.op # "health_check" => last.status >= 400
          /\ last.op = "health_check" =>
                last.status = 200 /\ last.body.database = "error"

\* C11 witness: a report request whose Document Sink store failed after
\* the fetch and the assembly.
C11_Witness ==
    /\ last.op = "generate_report"
    /\ last.failed = "cloudinary.upload"
    /\ last.status = 500
    /\ Len(last.calls) = 3

\* the rows of the table a fetch for the location returns
Matching(location) ==
    {i \in DOMAIN trees : location = "" \/ trees[i]["location"] = location}

\* C12: a report request answers success with a report_url only after, in
\* this order, the fetch returned at least one record, the document was
\* assembled, the Document Sink store succeeded and a metadata row was
\* appended to reports; the report_url is the URL the sink returned for
\* this request, and the row carries that URL and the number of records
\* fetched as tree_count.
C12_SuccessAfterPipeline ==
    [][(last'.op = "generate_report" /\ last'.status = 200) =>
          /\ last'.calls = <<"trees.select", "generate_pdf_report",
                             "cloudinary.upload", "reports.insert">>
          /\ last'.failed = ""
          /\ last'.fetched >= 1
          /\ last'.fetched = Cardinality(Matching(last'.location))
          /\ doc'.ok
          /\ doc'.val.summary.total_trees = last'.fetched
          /\ sink' = sink + 1
          /\ last'.body.report_url = sink'
          /\ Len(reports') = Len(reports) + 1
          /\ SubSeq(reports', 1, Len(reports)) = reports
          /\ reports'[Len(reports')].report_url = last'.body.report_url
          /\ reports'[Len(reports')].tree_count = last'.fetched
          /\ reports'[Len(reports')].location = last'.location]_vars

\* C12 witness: a successful report for one location of a table that also
\* holds a row of another location.
C12_Witness ==
    /\ last.op = "generate_report" /\ last.status = 200
    /\ last.location = "A"
    /\ last.fetched = 1 /\ Len(trees) = 2
    /\ reports # <<>>
    /\ reports[Len(reports)].tree_count = 1
    /\ reports[Len(reports)].report_url = last.body.report_url

====
